---- MODULE Spec2Model ----
(***************************************************************************)
(* A model of the OpenVPN configuration manager of src/vpn_manager.py:     *)
(* the VPNManager object (its fields and its slots), the managed           *)
(* directory it edits, and the external processes it drives.               *)
(***************************************************************************)
EXTENDS Integers, Sequences, FiniteSets, TLC

(***************************************************************************)
(* TEXT.  A file's content is the sequence of its words, with the token NL *)
(* for each line break; two words that follow each other are separated by  *)
(* white space on one line.  A word is named by a string; Spell gives its  *)
(* characters, so that the substring and regular-expression tests of the   *)
(* source are computed on characters.                                      *)
(***************************************************************************)
NL == "<newline>"

SpellRows ==
  {
    <<"#", <<"#">>>>,
    <<"DNS", <<"D", "N", "S">>>>,
    <<"Leak", <<"L", "e", "a", "k">>>>,
    <<"Prevention", <<"P", "r", "e", "v", "e", "n", "t", "i", "o", "n">>>>,
    <<"(added", <<"(", "a", "d", "d", "e", "d">>>>,
    <<"by", <<"b", "y">>>>,
    <<"VPN", <<"V", "P", "N">>>>,
    <<"Manager)", <<"M", "a", "n", "a", "g", "e", "r", ")">>>>,
    <<"script-security", <<"s", "c", "r", "i", "p", "t", "-", "s", "e", "c", "u", "r", "i", "t", "y">>>>,
    <<"2", <<"2">>>>,
    <<"up", <<"u", "p">>>>,
    <<"down", <<"d", "o", "w", "n">>>>,
    <<"down-pre", <<"d", "o", "w", "n", "-", "p", "r", "e">>>>,
    <<"/etc/openvpn/update-resolv-conf", <<"/", "e", "t", "c", "/", "o", "p", "e", "n", "v", "p", "n", "/", "u", "p", "d", "a", "t", "e", "-", "r", "e", "s", "o", "l", "v", "-", "c", "o", "n", "f">>>>,
    <<"/etc/openvpn/update-systemd-resolved", <<"/", "e", "t", "c", "/", "o", "p", "e", "n", "v", "p", "n", "/", "u", "p", "d", "a", "t", "e", "-", "s", "y", "s", "t", "e", "m", "d", "-", "r", "e", "s", "o", "l", "v", "e", "d">>>>,
    <<"Note:", <<"N", "o", "t", "e", ":">>>>,
    <<"Install", <<"I", "n", "s", "t", "a", "l", "l">>>>,
    <<"openresolv", <<"o", "p", "e", "n", "r", "e", "s", "o", "l", "v">>>>,
    <<"for", <<"f", "o", "r">>>>,
    <<"automatic", <<"a", "u", "t", "o", "m", "a", "t", "i", "c">>>>,
    <<"handling:", <<"h", "a", "n", "d", "l", "i", "n", "g", ":">>>>,
    <<"sudo", <<"s", "u", "d", "o">>>>,
    <<"apt", <<"a", "p", "t">>>>,
    <<"install", <<"i", "n", "s", "t", "a", "l", "l">>>>,
    <<"Or", <<"O", "r">>>>,
    <<"use", <<"u", "s", "e">>>>,
    <<"systemd-resolved", <<"s", "y", "s", "t", "e", "m", "d", "-", "r", "e", "s", "o", "l", "v", "e", "d">>>>,
    <<"if", <<"i", "f">>>>,
    <<"available", <<"a", "v", "a", "i", "l", "a", "b", "l", "e">>>>,
    <<"Disable", <<"D", "i", "s", "a", "b", "l", "e">>>>,
    <<"IPv6", <<"I", "P", "v", "6">>>>,
    <<"to", <<"t", "o">>>>,
    <<"prevent", <<"p", "r", "e", "v", "e", "n", "t">>>>,
    <<"leaks", <<"l", "e", "a", "k", "s">>>>,
    <<"(run", <<"(", "r", "u", "n">>>>,
    <<"manually", <<"m", "a", "n", "u", "a", "l", "l", "y">>>>,
    <<"needed):", <<"n", "e", "e", "d", "e", "d", ")", ":">>>>,
    <<"sysctl", <<"s", "y", "s", "c", "t", "l">>>>,
    <<"-w", <<"-", "w">>>>,
    <<"net.ipv6.conf.all.disable_ipv6=1", <<"n", "e", "t", ".", "i", "p", "v", "6", ".", "c", "o", "n", "f", ".", "a", "l", "l", ".", "d", "i", "s", "a", "b", "l", "e", "_", "i", "p", "v", "6", "=", "1">>>>,
    <<"net.ipv6.conf.default.disable_ipv6=1", <<"n", "e", "t", ".", "i", "p", "v", "6", ".", "c", "o", "n", "f", ".", "d", "e", "f", "a", "u", "l", "t", ".", "d", "i", "s", "a", "b", "l", "e", "_", "i", "p", "v", "6", "=", "1">>>>,
    <<"Credentials", <<"C", "r", "e", "d", "e", "n", "t", "i", "a", "l", "s">>>>,
    <<"auth-user-pass", <<"a", "u", "t", "h", "-", "u", "s", "e", "r", "-", "p", "a", "s", "s">>>>,
    <<"Auth-User-Pass", <<"A", "u", "t", "h", "-", "U", "s", "e", "r", "-", "P", "a", "s", "s">>>>,
    <<"#auth-user-pass", <<"#", "a", "u", "t", "h", "-", "u", "s", "e", "r", "-", "p", "a", "s", "s">>>>,
    <<"auth-user-pass-verify", <<"a", "u", "t", "h", "-", "u", "s", "e", "r", "-", "p", "a", "s", "s", "-", "v", "e", "r", "i", "f", "y">>>>,
    <<"/home/u/.vpn_manager/configs/auth/a.auth", <<"/", "h", "o", "m", "e", "/", "u", "/", ".", "v", "p", "n", "_", "m", "a", "n", "a", "g", "e", "r", "/", "c", "o", "n", "f", "i", "g", "s", "/", "a", "u", "t", "h", "/", "a", ".", "a", "u", "t", "h">>>>,
    <<"/home/u/.vpn_manager/configs/auth/b.auth", <<"/", "h", "o", "m", "e", "/", "u", "/", ".", "v", "p", "n", "_", "m", "a", "n", "a", "g", "e", "r", "/", "c", "o", "n", "f", "i", "g", "s", "/", "a", "u", "t", "h", "/", "b", ".", "a", "u", "t", "h">>>>,
    <<"update-resolv-conf", <<"u", "p", "d", "a", "t", "e", "-", "r", "e", "s", "o", "l", "v", "-", "c", "o", "n", "f">>>>,
    <<"update-systemd-resolved", <<"u", "p", "d", "a", "t", "e", "-", "s", "y", "s", "t", "e", "m", "d", "-", "r", "e", "s", "o", "l", "v", "e", "d">>>>,
    <<"client", <<"c", "l", "i", "e", "n", "t">>>>,
    <<"remote", <<"r", "e", "m", "o", "t", "e">>>>,
    <<"server", <<"s", "e", "r", "v", "e", "r">>>>,
    <<"a.example.net", <<"a", ".", "e", "x", "a", "m", "p", "l", "e", ".", "n", "e", "t">>>>,
    <<"b.example.net", <<"b", ".", "e", "x", "a", "m", "p", "l", "e", ".", "n", "e", "t">>>>,
    <<"1194", <<"1", "1", "9", "4">>>>,
    <<"old.txt", <<"o", "l", "d", ".", "t", "x", "t">>>>,
    <<"check.sh", <<"c", "h", "e", "c", "k", ".", "s", "h">>>>,
    <<"via-env", <<"v", "i", "a", "-", "e", "n", "v">>>>,
    <<"u", <<"u">>>>,
    <<"p", <<"p">>>>
  }

Vocabulary == {r[1] : r \in SpellRows}

Spell == [w \in Vocabulary |-> (CHOOSE r \in SpellRows : r[1] = w)[2]]

\* The word with the given characters.
Intern(chars) == CHOOSE w \in Vocabulary : Spell[w] = chars

UpperCase == <<"A", "B", "C", "D", "E", "F", "G", "H", "I", "J", "K", "L", "M",
               "N", "O", "P", "Q", "R", "S", "T", "U", "V", "W", "X", "Y", "Z">>
LowerCase == <<"a", "b", "c", "d", "e", "f", "g", "h", "i", "j", "k", "l", "m",
               "n", "o", "p", "q", "r", "s", "t", "u", "v", "w", "x", "y", "z">>

\* str.lower() of one character, and of a sequence of characters.
LowerChar(c) ==
  IF \E i \in 1..Len(UpperCase) : UpperCase[i] = c
  THEN LowerCase[CHOOSE i \in 1..Len(UpperCase) : UpperCase[i] = c]
  ELSE c

Lower(s) == [i \in 1..Len(s) |-> LowerChar(s[i])]

\* Python's `n in s` on character sequences.
IsSubstr(n, s) == \E i \in 0..(Len(s) - Len(n)) : SubSeq(s, i + 1, i + Len(n)) = n

\* `needle in content`: the needles hold no white space, so an occurrence
\* lies within one word.
WordsWithResolvConf ==
  {w \in Vocabulary : IsSubstr(Spell["update-resolv-conf"], Spell[w])}

WordsWithSystemdResolved ==
  {w \in Vocabulary : IsSubstr(Spell["update-systemd-resolved"], Spell[w])}

InContent(words, content) ==
  \E i \in 1..Len(content) : content[i] # NL /\ content[i] \in words

\* '\n'.join(lines), each line a sequence of words.
RECURSIVE JoinLines(_)
JoinLines(lines) ==
  IF Len(lines) = 0 THEN <<>>
  ELSE IF Len(lines) = 1 THEN lines[1]
  ELSE lines[1] \o <<NL>> \o JoinLines(Tail(lines))

(***************************************************************************)
(* _inject_dns_leak_prevention.  host is the set of helper scripts that    *)
(* exist on the host; io_ok is FALSE when reading or appending raises,     *)
(* which the handler swallows.                                             *)
(***************************************************************************)
ResolvConfScript == "/etc/openvpn/update-resolv-conf"
SystemdScript == "/etc/openvpn/update-systemd-resolved"
Hosts == SUBSET {ResolvConfScript, SystemdScript}

NoScript == "None"

dns_script(host) ==
  IF ResolvConfScript \in host THEN ResolvConfScript
  ELSE IF SystemdScript \in host THEN SystemdScript
  ELSE NoScript

dns_settings(host) ==
  << <<>>,
     <<"#", "DNS", "Leak", "Prevention", "(added", "by", "VPN", "Manager)">>,
     <<"script-security", "2">> >>
  \o (IF dns_script(host) # NoScript
      THEN << <<"up", dns_script(host)>>,
              <<"down", dns_script(host)>>,
              <<"down-pre">> >>
      ELSE << <<"#", "Note:", "Install", "openresolv", "for", "automatic", "DNS", "handling:">>,
              <<"#", "sudo", "apt", "install", "openresolv">>,
              <<"#", "Or", "use", "systemd-resolved", "if", "available">> >>)
  \o << <<>>,
        <<"#", "Disable", "IPv6", "to", "prevent", "leaks", "(run", "manually", "if", "needed):">>,
        <<"#", "sudo", "sysctl", "-w", "net.ipv6.conf.all.disable_ipv6=1">>,
        <<"#", "sudo", "sysctl", "-w", "net.ipv6.conf.default.disable_ipv6=1">> >>

inject_dns_leak_prevention(content, host, io_ok) ==
  IF ~io_ok THEN content
  ELSE IF InContent(WordsWithResolvConf, content)
          \/ InContent(WordsWithSystemdResolved, content)
  THEN content
  ELSE content \o <<NL>> \o JoinLines(dns_settings(host)) \o <<NL>>

(***************************************************************************)
(* _inject_auth_credentials.                                               *)
(***************************************************************************)
AuthDirective == "auth-user-pass"

\* re.search(r'auth-user-pass', content, re.IGNORECASE)
WordsWithAuth == {w \in Vocabulary : IsSubstr(Spell[AuthDirective], Lower(Spell[w]))}

\* The words an occurrence of the directive ends: only there can the white
\* space of r'auth-user-pass\s+' follow it.
EndsWithAuth(w) ==
  LET s == Spell[w]
      n == Len(Spell[AuthDirective])
  IN  Len(s) >= n /\ Lower(SubSeq(s, Len(s) - n + 1, Len(s))) = Spell[AuthDirective]

WordsEndingAuth == {w \in Vocabulary : EndsWithAuth(w)}

\* The word left by replacing the match's part of w by 'auth-user-pass'.
ReplacedWord(w) ==
  Intern(SubSeq(Spell[w], 1, Len(Spell[w]) - Len(Spell[AuthDirective])) \o Spell[AuthDirective])

\* The end of a match that starts in word i: \s+ takes the line breaks (and
\* blanks) that follow, [^\n]* the words up to the next line break.
RECURSIVE SkipBreaks(_, _)
SkipBreaks(content, j) ==
  IF j <= Len(content) /\ content[j] = NL THEN SkipBreaks(content, j + 1) ELSE j

RECURSIVE SkipLine(_, _)
SkipLine(content, j) ==
  IF j <= Len(content) /\ content[j] # NL THEN SkipLine(content, j + 1) ELSE j

\* re.sub(r'auth-user-pass\s+[^\n]*', f'auth-user-pass {auth_file}', content,
\*        flags=re.IGNORECASE), from word i on.
RECURSIVE SubAuth(_, _, _)
SubAuth(content, auth_file, i) ==
  IF i > Len(content) THEN <<>>
  ELSE IF content[i] # NL /\ content[i] \in WordsEndingAuth /\ i < Len(content)
  THEN <<ReplacedWord(content[i]), auth_file>>
       \o SubAuth(content, auth_file, SkipLine(content, SkipBreaks(content, i + 1)))
  ELSE <<content[i]>> \o SubAuth(content, auth_file, i + 1)

inject_auth_credentials(content, auth_file, io_ok) ==
  IF ~io_ok THEN content
  ELSE IF InContent(WordsWithAuth, content)
  THEN SubAuth(content, auth_file, 1)
  ELSE content \o <<NL, "#", "VPN", "Credentials", "(added", "by", "VPN", "Manager)", NL,
                    AuthDirective, auth_file, NL>>

(***************************************************************************)
(* FILES.  The managed directory (config_dir) and the places the user can  *)
(* point the file and folder dialogs at.                                   *)
(***************************************************************************)
None == "None"

\* In place of a content: there is no file at the path.
Absent == <<"<absent>">>

\* None in a field that holds a record of the store.
NoConfig == [name |-> "", path |-> None, latency |-> -1, ping_success |-> FALSE]

Filenames == {"a.ovpn", "b.ovpn"}

\* os.path.join(self.config_dir, filename)
DestPath(filename) ==
  IF filename = "a.ovpn" THEN "/home/u/.vpn_manager/configs/a.ovpn"
  ELSE "/home/u/.vpn_manager/configs/b.ovpn"

ManagedPaths == {DestPath(f) : f \in Filenames}

\* Path(filename).stem
Stem(filename) ==
  IF filename = "a.ovpn" THEN "a"
  ELSE IF filename = "b.ovpn" THEN "b"
  ELSE "notes"

\* os.path.join(os.path.dirname(config_path), 'auth', f"{config_name}.auth")
AuthPath(filename) ==
  IF filename = "a.ovpn" THEN "/home/u/.vpn_manager/configs/auth/a.auth"
  ELSE "/home/u/.vpn_manager/configs/auth/b.auth"

AuthPaths == {AuthPath(f) : f \in Filenames}

\* A configuration an earlier run left in the managed directory.
EarlierContent ==
  <<"client", NL, "remote", "b.example.net", "1194", NL, "auth-user-pass", "old.txt", NL>>

\* The files outside the managed directory: path, basename, content.
SourceFiles ==
  { [path |-> "/src/notes.txt", filename |-> "notes.txt",
     content |-> <<"client", NL>>],
    [path |-> "/src/dir/a.ovpn", filename |-> "a.ovpn",
     content |-> <<"client", NL, "remote", "a.example.net", "1194", NL>>],
    [path |-> "/src/dir/b.ovpn", filename |-> "b.ovpn",
     content |-> <<"auth-user-pass", NL, "up", "/etc/openvpn/update-resolv-conf", NL>>] }

SourceFolders == {"/src/dir"}

\* What the dialogs can return (the empty string of a dismissed dialog aside).
PickableFiles == {"/src/dir/a.ovpn", "/src/notes.txt"}
PickableFolders == SourceFolders

SourceAt(path) == CHOOSE s \in SourceFiles : s.path = path

\* os.path.isfile, os.path.exists on the paths above.
IsFile(path) == \E s \in SourceFiles : s.path = path
PathExists(path) == IsFile(path) \/ path \in SourceFolders

\* file_path.endswith('.ovpn')
EndsWithOvpn(path) == path \in {"/src/dir/a.ovpn", "/src/dir/b.ovpn"}

\* Path(folder_path).rglob("*.ovpn"), as a set: the order is the file system's.
FolderFiles(folder) ==
  IF folder = "/src/dir" THEN {"/src/dir/a.ovpn", "/src/dir/b.ovpn"} ELSE {}

\* Path(file_path).stem of a picked file.
PathStem(path) == Stem(SourceAt(path).filename)

\* The orders a set can be enumerated in.
Orders(S) ==
  {o \in [1..Cardinality(S) -> S] : \A i, j \in 1..Cardinality(S) : o[i] = o[j] => i = j}

(***************************************************************************)
(* BOUNDS and inputs.                                                      *)
(***************************************************************************)
\* The store holds at most MaxConfigs records: an import that would exceed it is not taken.
MaxConfigs == 2
\* At most MaxTimers single-shot timers are pending.
MaxTimers == 1

Usernames == {"", "u"}
VpnPasswords == {"", "p"}
SudoPasswords == {"pw"}
ConfigNames == {"a", "b", "zz"}

(***************************************************************************)
(* STATE.                                                                  *)
(***************************************************************************)
VARIABLES
  configs,                        \* self._configs
  connected_config,               \* self._connected_config
  connection_process,             \* self._connection_process
  pending_connect_config,         \* self._pending_connect_config
  stored_password,                \* self._stored_password
  pending_vpn_username,           \* self._pending_vpn_username
  pending_vpn_password,           \* self._pending_vpn_password
  pending_config_for_credentials, \* self._pending_config_for_credentials
  files,                          \* the managed directory: path -> content or Absent
  authFiles,                      \* its auth subdirectory: path -> content or Absent
  vpnRunning,                     \* an openvpn process is present on the system
  timers,                         \* the QTimer.singleShot calls not yet fired
  lastOp,                         \* the last call: slot, argument, the environment's answer
  emitted,                        \* the signals the last call emitted, in order
  ping_worker,                    \* self._ping_worker: the thread's state and its place in the list
  pingQueue,                      \* the worker's signals queued for the manager's thread
  passNames,                      \* the names of the store when the last pass was started
  passResults,                    \* the names the last pass has emitted a result for
  hContent, hHost, hOnce, hCalls, \* the file, host and call count of InjectSpec
  hBefore                         \* the file as the last injection found it

managerVars ==
  <<configs, connected_config, connection_process, pending_connect_config,
    stored_password, pending_vpn_username, pending_vpn_password,
    pending_config_for_credentials>>
envVars == <<files, authFiles, vpnRunning, timers>>
obsVars == <<lastOp, emitted>>
harnessVars == <<hContent, hHost, hOnce, hCalls, hBefore>>
pingVars == <<ping_worker, pingQueue, passNames, passResults>>
vars == <<managerVars, envVars, obsVars, pingVars, harnessVars>>

\* A signal with its argument (a string, or a count).
Sig(s, a) == [sig |-> s, arg |-> a, count |-> 0]
SigCount(s, n) == [sig |-> s, arg |-> None, count |-> n]

\* A call: the slot, its argument, the environment's answer, and the files
\* whose deletion it found to fail.
Op(o, a, r) == [op |-> o, arg |-> a, outcome |-> r, failing |-> {}]

Record(filename) ==
  [name |-> Stem(filename), path |-> DestPath(filename), latency |-> -1, ping_success |-> FALSE]

\* The connection_status property.
connection_status ==
  IF connection_process # None /\ connection_process.poll = None
  THEN (IF connected_config # NoConfig THEN "connected" ELSE "connecting")
  ELSE "disconnected"

\* The connected_config_name property.
connected_config_name ==
  IF connected_config # NoConfig THEN connected_config.name ELSE ""

\* FindConfig with the loop running to its end: the last record of that name.
FindLastConfig(cfgs, config_name) ==
  IF \E i \in 1..Len(cfgs) : cfgs[i].name = config_name
  THEN CHOOSE i \in 1..Len(cfgs) :
         /\ cfgs[i].name = config_name
         /\ \A j \in (i + 1)..Len(cfgs) : cfgs[j].name # config_name
  ELSE 0

\* The index of the first record of that name, or 0: the loops
\* `for c in self._configs: if c['name'] == config_name: ...; break`.
FindConfig(cfgs, config_name) ==
  IF \E i \in 1..Len(cfgs) : cfgs[i].name = config_name
  THEN CHOOSE i \in 1..Len(cfgs) :
         /\ cfgs[i].name = config_name
         /\ \A j \in 1..(i - 1) : cfgs[j].name # config_name
  ELSE 0

\* list.remove of the element at index i.
RemoveAt(s, i) == SubSeq(s, 1, i - 1) \o SubSeq(s, i + 1, Len(s))

\* VPNManager.__init__ and _load_configs: one record per *.ovpn file of the directory.
load_configs(order) ==
  [i \in 1..Len(order) |->
     [name |-> Stem(order[i]), path |-> DestPath(order[i]), latency |-> -1,
      ping_success |-> FALSE]]

(***************************************************************************)
(* CONNECTION.                                                             *)
(***************************************************************************)
\* What the elevated start of the client can come to (lines 467-507).
ConnectOutcomes ==
  {"connected", "client_absent", "auth_failed", "failed", "timeout", "exception"}

\* `self._connection_process and self._connection_process.poll() is None`
ProcessLive == connection_process # None /\ connection_process.poll = None

\* connect_vpn: the pending record and the signals it ends with.
connect_vpn_result(config_name) ==
  IF ProcessLive
  THEN [pending |-> pending_connect_config,
        emitted |-> <<Sig("error_occurred", "Already connected. Please disconnect first.")>>]
  ELSE LET i == FindConfig(configs, config_name)
       IN  IF i = 0
           THEN [pending |-> pending_connect_config,
                 emitted |-> <<Sig("error_occurred", "Config not found")>>]
           ELSE [pending |-> configs[i],
                 emitted |-> <<Sig("password_requested", "Enter your password to connect to VPN")>>]

connect_vpn(config_name) ==
  LET r == connect_vpn_result(config_name)
  IN  /\ pending_connect_config' = r.pending
      /\ emitted' = r.emitted
      /\ lastOp' = Op("connect_vpn", config_name, None)
      /\ UNCHANGED <<configs, connected_config, connection_process, stored_password,
                     pending_vpn_username, pending_vpn_password,
                     pending_config_for_credentials, envVars, pingVars, harnessVars>>

\* connect_vpn_with_password_result with the secret retained as soon as the
\* elevation has succeeded, before the client's presence is checked.
connect_vpn_with_password_retains_early(config, password, outcome) ==
  LET connecting == <<Sig("connection_status_changed", "connecting")>>
      failure(msg) ==
        [connected_config |-> connected_config,
         stored_password |-> IF outcome = "client_absent" THEN password ELSE stored_password,
         vpnRunning |-> IF outcome = "client_absent" THEN FALSE ELSE vpnRunning,
         emitted |-> connecting \o <<Sig("error_occurred", msg),
                                     Sig("connection_status_changed", "error")>>]
  IN  IF outcome = "connected"
      THEN [connected_config |-> config,
            stored_password |-> password,
            vpnRunning |-> TRUE,
            emitted |-> connecting \o <<Sig("connection_status_changed", "connected")>>]
      ELSE failure("Error connecting")

\* _connect_vpn_with_password past its guard: the active record, the retained
\* secret, the client's presence and the signals, for each outcome.
connect_vpn_with_password_result(config, password, outcome) ==
  LET connecting == <<Sig("connection_status_changed", "connecting")>>
      failure(msg) ==
        [connected_config |-> connected_config,
         stored_password |-> stored_password,
         vpnRunning |-> IF outcome = "client_absent" THEN FALSE ELSE vpnRunning,
         emitted |-> connecting \o <<Sig("error_occurred", msg),
                                     Sig("connection_status_changed", "error")>>]
  IN  CASE outcome = "connected" ->
             [connected_config |-> config,
              stored_password |-> password,
              vpnRunning |-> TRUE,
              emitted |-> connecting \o <<Sig("connection_status_changed", "connected")>>]
        [] outcome = "client_absent" ->
             failure("Failed to start OpenVPN. Check if OpenVPN is installed and config is valid.")
        [] outcome = "auth_failed" ->
             failure("Authentication failed. Please check your password and OpenVPN installation.")
        [] outcome = "failed" ->
             failure("Failed to connect. Please check your password and OpenVPN installation.")
        [] outcome = "timeout" ->
             failure("Connection timeout. Please try again.")
        [] OTHER ->
             failure("Error connecting")

\* provide_password: a no-op unless a connect request is pending.
provide_password(password, outcome) ==
  IF pending_connect_config # NoConfig
  THEN LET r == connect_vpn_with_password_result(pending_connect_config, password, outcome)
       IN  /\ pending_connect_config' = NoConfig
           /\ connected_config' = r.connected_config
           /\ stored_password' = r.stored_password
           /\ vpnRunning' = r.vpnRunning
           /\ emitted' = r.emitted
           /\ lastOp' = Op("provide_password", password, outcome)
           /\ UNCHANGED <<configs, connection_process, pending_vpn_username,
                          pending_vpn_password, pending_config_for_credentials,
                          files, authFiles, timers, pingVars, harnessVars>>
  ELSE /\ emitted' = <<>>
       /\ lastOp' = Op("provide_password", password, None)
       /\ UNCHANGED <<managerVars, envVars, pingVars, harnessVars>>

\* cancel_password without line 269: the connect request stays pending.
cancel_password_keeps_request ==
  /\ emitted' = <<Sig("password_cancelled", None)>>
  /\ lastOp' = Op("cancel_password", None, None)
  /\ UNCHANGED <<managerVars, envVars, pingVars, harnessVars>>

cancel_password ==
  /\ pending_connect_config' = NoConfig
  /\ emitted' = <<Sig("password_cancelled", None)>>
  /\ lastOp' = Op("cancel_password", None, None)
  /\ UNCHANGED <<configs, connected_config, connection_process, stored_password,
                 pending_vpn_username, pending_vpn_password,
                 pending_config_for_credentials, envVars, pingVars, harnessVars>>

\* What the termination command can come to: it ran and killed the client,
\* it ran and exited non-zero, it could not be started or written to.
DisconnectOutcomes == {"killed", "kill_failed", "exception"}

\* disconnect_vpn_result with the secret cleared to the empty string.
disconnect_vpn_clears_to_empty(outcome) ==
  IF outcome = "exception"
  THEN [connected_config |-> connected_config,
        stored_password |-> stored_password,
        connection_process |-> connection_process,
        vpnRunning |-> vpnRunning,
        emitted |-> <<Sig("error_occurred", "Error disconnecting")>>]
  ELSE [connected_config |-> NoConfig,
        stored_password |-> "",
        connection_process |-> connection_process,
        vpnRunning |-> IF outcome = "killed" THEN FALSE ELSE vpnRunning,
        emitted |-> <<Sig("connection_status_changed", "disconnected")>>]

\* disconnect_vpn (lines 512-540); self._connection_process is falsy whenever
\* it is reached, as no line assigns it a process.
disconnect_vpn_result(outcome) ==
  IF outcome = "exception"
  THEN [connected_config |-> connected_config,
        stored_password |-> stored_password,
        connection_process |-> connection_process,
        vpnRunning |-> vpnRunning,
        emitted |-> <<Sig("error_occurred", "Error disconnecting")>>]
  ELSE [connected_config |-> NoConfig,
        stored_password |-> None,
        connection_process |-> IF connection_process # None THEN None ELSE connection_process,
        vpnRunning |-> IF outcome = "killed" THEN FALSE ELSE vpnRunning,
        emitted |-> <<Sig("connection_status_changed", "disconnected")>>]

\* pkill exits 0 only when it matched a process.
DisconnectPossible(outcome) == outcome = "killed" => vpnRunning

disconnect_vpn(outcome) ==
  /\ DisconnectPossible(outcome)
  /\ LET r == disconnect_vpn_result(outcome)
     IN  /\ connected_config' = r.connected_config
         /\ stored_password' = r.stored_password
         /\ connection_process' = r.connection_process
         /\ vpnRunning' = r.vpnRunning
         /\ emitted' = r.emitted
         /\ lastOp' = Op("disconnect_vpn", connected_config_name, outcome)
         /\ UNCHANGED <<configs, pending_connect_config, pending_vpn_username,
                        pending_vpn_password, pending_config_for_credentials,
                        files, authFiles, timers, pingVars, harnessVars>>

\* The openvpn daemon ends on its own (the tunnel drops, the process is killed).
ProcessExit ==
  /\ vpnRunning
  /\ vpnRunning' = FALSE
  /\ emitted' = <<>>
  /\ lastOp' = Op("process_exit", None, None)
  /\ UNCHANGED <<managerVars, files, authFiles, timers, pingVars, harnessVars>>

(***************************************************************************)
(* STORE.                                                                  *)
(***************************************************************************)
\* Where an import of one file can fail: the copy raises, writing the auth
\* file raises (both reach the caller's handler), or an injection raises
\* (swallowed by the injection itself).
ImportOutcomes ==
  {"ok", "copy_fail", "auth_file_fail", "inject_auth_fail", "inject_dns_fail"}

\* The host an import runs on.
ImportHosts == {{SystemdScript}}

\* _create_auth_file: the content written.
auth_file_content(username, password) == <<username, NL, password, NL>>

\* The copy of one source file into the managed directory and what follows it
\* (lines 334-355 and 378-396) on st = [files, authFiles, configs, added, raised].
import_one(st, src, username, password, host, outcome) ==
  LET dest == DestPath(src.filename)
      auth_file == AuthPath(src.filename)
      with_auth == inject_auth_credentials(src.content, auth_file,
                     outcome # "inject_auth_fail")
      with_dns == inject_dns_leak_prevention(with_auth, host,
                     outcome # "inject_dns_fail")
  IN  IF outcome = "copy_fail"
      THEN [st EXCEPT !.raised = TRUE]
      ELSE IF outcome = "auth_file_fail"
      THEN [st EXCEPT !.files[dest] = src.content, !.raised = TRUE]
      ELSE [st EXCEPT !.files[dest] = with_dns,
                      !.authFiles[auth_file] = auth_file_content(username, password),
                      !.configs = Append(st.configs, Record(src.filename)),
                      !.added = st.added + 1]

StoreState == [files |-> files, authFiles |-> authFiles, configs |-> configs,
               added |-> 0, raised |-> FALSE, emitted |-> <<>>]

\* _add_config_file_with_credentials
add_config_file_with_credentials(file_path, username, password, host, outcome) ==
  IF ~PathExists(file_path)
  THEN [StoreState EXCEPT !.emitted = <<Sig("error_occurred", "File not found")>>]
  ELSE IF ~EndsWithOvpn(file_path)
  THEN [StoreState EXCEPT !.emitted = <<Sig("error_occurred", "File must be a .ovpn file")>>]
  ELSE LET st == import_one(StoreState, SourceAt(file_path), username, password, host, outcome)
       IN  IF st.raised
           THEN [st EXCEPT !.emitted = <<Sig("error_occurred", "Error adding config")>>]
           ELSE [st EXCEPT !.emitted = <<Sig("configs_changed", None)>>]

\* skip_existing without its test: every file of the folder is copied.
skip_never(st, src) == FALSE

\* Whether the loop leaves the file at order[i] alone (lines 374-376).
skip_existing(st, src) == st.files[DestPath(src.filename)] # Absent

\* The loop of _add_config_folder_with_credentials from the i-th file on.
RECURSIVE folder_loop(_, _, _, _, _, _, _)
folder_loop(st, order, i, username, password, host, outcomes) ==
  IF i > Len(order) THEN st
  ELSE LET src == SourceAt(order[i])
       IN  IF skip_existing(st, src)
           THEN folder_loop(st, order, i + 1, username, password, host, outcomes)
           ELSE LET st2 == import_one(st, src, username, password, host, outcomes[i])
                IN  IF st2.raised THEN st2
                    ELSE folder_loop(st2, order, i + 1, username, password, host, outcomes)

\* _add_config_folder_with_credentials
add_config_folder_with_credentials(folder_path, username, password, host, order, outcomes) ==
  IF ~PathExists(folder_path)
  THEN [StoreState EXCEPT !.emitted = <<Sig("error_occurred", "Folder not found")>>]
  ELSE LET st == folder_loop(StoreState, order, 1, username, password, host, outcomes)
       IN  IF st.raised
           THEN [st EXCEPT !.emitted = <<Sig("error_occurred", "Error adding folder")>>]
           ELSE IF st.added > 0
           THEN [st EXCEPT !.emitted = <<Sig("configs_changed", None)>>]
           ELSE [st EXCEPT !.emitted = <<Sig("error_occurred", "No new .ovpn files found in folder")>>]

\* The outcomes of n imports of which at most one is not "ok".
OneFailure(n) ==
  {f \in [1..n -> ImportOutcomes] : \A i, j \in 1..n : (f[i] # "ok" /\ f[j] # "ok") => i = j}

\* The environment of one import: the helper scripts of the host, the order
\* the folder is enumerated in, and where each file's import fails.
ImportEnvs(target) ==
  IF target \in SourceFolders
  THEN {[host |-> h, order |-> o, outcomes |-> f] :
          h \in ImportHosts, o \in Orders(FolderFiles(target)),
          f \in OneFailure(Cardinality(FolderFiles(target)))}
  ELSE IF target # None /\ IsFile(target) /\ EndsWithOvpn(target)
  THEN {[host |-> h, order |-> <<target>>, outcomes |-> <<f>>] :
          h \in ImportHosts, f \in ImportOutcomes}
  ELSE {[host |-> {}, order |-> <<>>, outcomes |-> <<>>]}

\* provide_vpn_credentials past the check of its arguments, with a request pending.
import_pending(username, password, env) ==
  IF IsFile(pending_config_for_credentials)
  THEN add_config_file_with_credentials(pending_config_for_credentials, username, password,
                                        env.host, env.outcomes[1])
  ELSE add_config_folder_with_credentials(pending_config_for_credentials, username, password,
                                          env.host, env.order, env.outcomes)

provide_vpn_credentials(username, password, env) ==
  /\ lastOp' = Op("provide_vpn_credentials", pending_config_for_credentials,
                  IF username # "" /\ password # "" THEN "accepted" ELSE "rejected")
  /\ IF username = "" \/ password = ""
     THEN /\ emitted' = <<Sig("error_occurred", "Username and password are required")>>
          /\ UNCHANGED <<managerVars, envVars, pingVars, harnessVars>>
     ELSE IF pending_config_for_credentials # None
     THEN LET st == import_pending(username, password, env)
          IN  /\ Len(st.configs) <= MaxConfigs
              /\ configs' = st.configs
              /\ files' = st.files
              /\ authFiles' = st.authFiles
              /\ emitted' = st.emitted
              /\ pending_config_for_credentials' = None
              /\ pending_vpn_username' = None
              /\ pending_vpn_password' = None
              /\ UNCHANGED <<connected_config, connection_process, pending_connect_config,
                             stored_password, vpnRunning, timers, pingVars, harnessVars>>
     ELSE /\ pending_vpn_username' = username
          /\ pending_vpn_password' = password
          /\ emitted' = <<>>
          /\ UNCHANGED <<configs, connected_config, connection_process,
                         pending_connect_config, stored_password,
                         pending_config_for_credentials, envVars, pingVars, harnessVars>>

\* cancel_vpn_credentials without line 275: the request stays pending.
cancel_vpn_credentials_keeps_request ==
  /\ pending_vpn_username' = None
  /\ pending_vpn_password' = None
  /\ emitted' = <<Sig("vpn_credentials_cancelled", None)>>
  /\ lastOp' = Op("cancel_vpn_credentials", None, None)
  /\ UNCHANGED <<configs, connected_config, connection_process, pending_connect_config,
                 stored_password, pending_config_for_credentials, envVars, pingVars,
                 harnessVars>>

cancel_vpn_credentials ==
  /\ pending_config_for_credentials' = None
  /\ pending_vpn_username' = None
  /\ pending_vpn_password' = None
  /\ emitted' = <<Sig("vpn_credentials_cancelled", None)>>
  /\ lastOp' = Op("cancel_vpn_credentials", None, None)
  /\ UNCHANGED <<configs, connected_config, connection_process, pending_connect_config,
                 stored_password, envVars, pingVars, harnessVars>>

\* show_file_dialog and show_folder_dialog with a path chosen: the request is
\* stored and the signal is left to a single-shot timer.
show_file_dialog(file_path) ==
  /\ Len(timers) < MaxTimers
  /\ pending_config_for_credentials' = file_path
  /\ timers' = Append(timers, PathStem(file_path))
  /\ emitted' = <<>>
  /\ lastOp' = Op("show_file_dialog", file_path, None)
  /\ UNCHANGED <<configs, connected_config, connection_process, pending_connect_config,
                 stored_password, pending_vpn_username, pending_vpn_password,
                 files, authFiles, vpnRunning, pingVars, harnessVars>>

show_folder_dialog(folder_path) ==
  /\ Len(timers) < MaxTimers
  /\ pending_config_for_credentials' = folder_path
  /\ timers' = Append(timers, "folder")
  /\ emitted' = <<>>
  /\ lastOp' = Op("show_folder_dialog", folder_path, None)
  /\ UNCHANGED <<configs, connected_config, connection_process, pending_connect_config,
                 stored_password, pending_vpn_username, pending_vpn_password,
                 files, authFiles, vpnRunning, pingVars, harnessVars>>

\* The event loop fires the oldest single-shot timer.
TimerFire ==
  /\ timers # <<>>
  /\ timers' = Tail(timers)
  /\ emitted' = <<Sig("vpn_credentials_requested", Head(timers))>>
  /\ lastOp' = Op("timer", Head(timers), None)
  /\ UNCHANGED <<managerVars, files, authFiles, vpnRunning, pingVars, harnessVars>>

\* remove_config; remove_ok is FALSE when os.remove raises.
remove_config_result(config_name, remove_ok) ==
  LET i == FindConfig(configs, config_name)
  IN  IF i = 0
      THEN [configs |-> configs, files |-> files, emitted |-> <<>>]
      ELSE IF files[configs[i].path] # Absent /\ ~remove_ok
      THEN [configs |-> configs, files |-> files,
            emitted |-> <<Sig("error_occurred", "Error removing config")>>]
      ELSE [configs |-> RemoveAt(configs, i),
            files |-> [files EXCEPT ![configs[i].path] = Absent],
            emitted |-> <<Sig("configs_changed", None)>>]

remove_config(config_name, remove_ok) ==
  LET r == remove_config_result(config_name, remove_ok)
  IN  /\ configs' = r.configs
      /\ files' = r.files
      /\ emitted' = r.emitted
      /\ lastOp' = Op("remove_config", config_name, IF remove_ok THEN "ok" ELSE "remove_fails")
      /\ UNCHANGED <<connected_config, connection_process, pending_connect_config,
                     stored_password, pending_vpn_username, pending_vpn_password,
                     pending_config_for_credentials, authFiles, vpnRunning, timers,
                     pingVars, harnessVars>>

\* The backing files of the records that exist.
BackingFiles == {configs[i].path : i \in 1..Len(configs)} \cap {p \in ManagedPaths : files[p] # Absent}

\* delete_all_configs_result without the inner handler: the first os.remove
\* that raises ends the loop in the outer handler.
delete_all_configs_aborts(failing) ==
  IF failing # {}
  THEN [configs |-> configs,
        files |-> files,
        emitted |-> <<Sig("error_occurred", "Error deleting configs")>>]
  ELSE [configs |-> <<>>,
        files |-> [p \in ManagedPaths |-> IF p \in BackingFiles THEN Absent ELSE files[p]],
        emitted |-> <<Sig("configs_changed", None)>>]

\* delete_all_configs; failing holds the files whose os.remove raises.
delete_all_configs_result(failing) ==
  [configs |-> <<>>,
   files |-> [p \in ManagedPaths |->
                IF p \in BackingFiles /\ p \notin failing THEN Absent ELSE files[p]],
   emitted |-> <<Sig("configs_changed", None)>>]

delete_all_configs(failing) ==
  LET r == delete_all_configs_result(failing)
  IN  /\ configs' = r.configs
      /\ files' = r.files
      /\ emitted' = r.emitted
      /\ lastOp' = [Op("delete_all_configs", None, None) EXCEPT !.failing = failing]
      /\ UNCHANGED <<connected_config, connection_process, pending_connect_config,
                     stored_password, pending_vpn_username, pending_vpn_password,
                     pending_config_for_credentials, authFiles, vpnRunning, timers,
                     pingVars, harnessVars>>

\* request_delete_all; outcome is that of the disconnect it makes when connected.
request_delete_all(outcome) ==
  /\ lastOp' = Op("request_delete_all", None, IF connected_config # NoConfig THEN outcome ELSE None)
  /\ IF Len(configs) = 0
     THEN /\ emitted' = <<Sig("error_occurred", "No configs to delete")>>
          /\ UNCHANGED <<managerVars, envVars, pingVars, harnessVars>>
     ELSE IF connected_config # NoConfig
     THEN LET r == disconnect_vpn_result(outcome)
          IN  /\ DisconnectPossible(outcome)
              /\ connected_config' = r.connected_config
              /\ stored_password' = r.stored_password
              /\ connection_process' = r.connection_process
              /\ vpnRunning' = r.vpnRunning
              /\ emitted' = r.emitted \o <<SigCount("confirm_delete_all", Len(configs))>>
              /\ UNCHANGED <<configs, pending_connect_config, pending_vpn_username,
                             pending_vpn_password, pending_config_for_credentials,
                             files, authFiles, timers, pingVars, harnessVars>>
     ELSE /\ emitted' = <<SigCount("confirm_delete_all", Len(configs))>>
          /\ UNCHANGED <<managerVars, envVars, pingVars, harnessVars>>

(***************************************************************************)
(* PROBE.  ping_all, the PingWorker thread, and the delivery of the        *)
(* worker's queued signals in the manager's thread.  The worker is handed  *)
(* self._configs itself, not a copy: it walks the list the slots edit.     *)
(***************************************************************************)
\* What _ping_server returns for a server: the time of the reply in
\* milliseconds, or -1.
PingLatencies == {-1, 0, 15, 40}

\* At most MaxQueue signals of the worker wait for the manager's thread.
MaxQueue == 1

\* self._ping_worker = None; otherwise whether the thread runs, the place of
\* its `for config in self.configs` in the list, and its stop flag.
NoWorker == [running |-> FALSE, pos |-> 0, should_stop |-> FALSE]

PingIdle ==
  /\ ping_worker = NoWorker
  /\ pingQueue = <<>>
  /\ passNames = <<>>
  /\ passResults = <<>>

\* Whether the word ends with the keyword, in any case.
EndsWithWord(w, key) ==
  LET s == Spell[w]
      n == Len(Spell[key])
  IN  Len(s) >= n /\ Lower(SubSeq(s, Len(s) - n + 1, Len(s))) = Spell[key]

\* re.search(key + r'\s+([^\s]+)', content, re.IGNORECASE): the places of the
\* keyword that white space and a word follow.
KeyMatches(content, key) ==
  {i \in 1..Len(content) :
     /\ content[i] # NL
     /\ EndsWithWord(content[i], key)
     /\ \E j \in (i + 1)..Len(content) : content[j] # NL}

\* group(1) of the first match.
KeyArgument(content, key) ==
  LET i == CHOOSE m \in KeyMatches(content, key) :
             \A k \in KeyMatches(content, key) : m <= k
  IN  content[SkipBreaks(content, i + 1)]

\* PingWorker._extract_server: the address, or None (also when the file
\* cannot be read).
extract_server(config_path) ==
  IF files[config_path] = Absent THEN None
  ELSE IF KeyMatches(files[config_path], "remote") # {}
  THEN KeyArgument(files[config_path], "remote")
  ELSE IF KeyMatches(files[config_path], "server") # {}
  THEN KeyArgument(files[config_path], "server")
  ELSE None

Names(cfgs) == [i \in 1..Len(cfgs) |-> cfgs[i].name]

\* ping_all_result without the test of line 409: a pass is started whether
\* or not one runs.
ping_all_unguarded ==
  [configs |-> [i \in 1..Len(configs) |->
                  [configs[i] EXCEPT !.latency = -1, !.ping_success = FALSE]],
   ping_worker |-> [running |-> TRUE, pos |-> 0, should_stop |-> FALSE],
   started |-> TRUE]

\* ping_all: the list, the worker, and whether a pass was started.
ping_all_result ==
  IF ping_worker.running
  THEN [configs |-> configs, ping_worker |-> ping_worker, started |-> FALSE]
  ELSE [configs |-> [i \in 1..Len(configs) |->
                       [configs[i] EXCEPT !.latency = -1, !.ping_success = FALSE]],
        ping_worker |-> [running |-> TRUE, pos |-> 0, should_stop |-> FALSE],
        started |-> TRUE]

ping_all ==
  LET r == ping_all_result
  IN  /\ configs' = r.configs
      /\ ping_worker' = r.ping_worker
      /\ passNames' = IF r.started THEN Names(configs) ELSE passNames
      /\ passResults' = IF r.started THEN <<>> ELSE passResults
      /\ emitted' = <<>>
      /\ lastOp' = Op("ping_all", None, IF ping_worker.running THEN "running" ELSE "idle")
      /\ UNCHANGED <<connected_config, connection_process, pending_connect_config,
                     stored_password, pending_vpn_username, pending_vpn_password,
                     pending_config_for_credentials, envVars, pingQueue, harnessVars>>

\* A signal of the worker, queued for the manager's thread.
QueuedResult(name, latency) ==
  [kind |-> "ping_result", name |-> name, latency |-> latency, success |-> latency > 0]
QueuedFinished ==
  [kind |-> "finished", name |-> "", latency |-> -1, success |-> FALSE]

\* One turn of the loop of PingWorker.run: the iterator yields the record at
\* its place in the list as the list is now, and the result is emitted.
PingWorkerStep(latency) ==
  /\ ping_worker.running
  /\ ~ping_worker.should_stop
  /\ ping_worker.pos < Len(configs)
  /\ Len(pingQueue) < MaxQueue
  /\ LET config == configs[ping_worker.pos + 1]
         server == extract_server(config.path)
     IN  /\ server = None => latency = -1
         /\ pingQueue' = Append(pingQueue, QueuedResult(config.name, latency))
         /\ passResults' = Append(passResults, config.name)
         /\ lastOp' = Op("PingWorker.run", config.name, None)
  /\ ping_worker' = [ping_worker EXCEPT !.pos = @ + 1]
  /\ emitted' = <<>>
  /\ UNCHANGED <<managerVars, envVars, passNames, harnessVars>>

\* The loop ends (the iterator is past the end of the list as it is now, or
\* the stop flag is set) and the thread finishes.
PingWorkerFinish ==
  /\ ping_worker.running
  /\ ping_worker.should_stop \/ ping_worker.pos >= Len(configs)
  /\ Len(pingQueue) < MaxQueue
  /\ ping_worker' = [ping_worker EXCEPT !.running = FALSE]
  /\ pingQueue' = Append(pingQueue, QueuedFinished)
  /\ emitted' = <<>>
  /\ lastOp' = Op("PingWorker.finished", None, None)
  /\ UNCHANGED <<managerVars, envVars, passNames, passResults, harnessVars>>

\* ping_progress(config_name, latency, success); success is latency > 0.
SigPing(name, latency) == [sig |-> "ping_progress", arg |-> name, count |-> latency]

\* The list after _on_ping_result.
on_ping_result_configs(config_name, latency, success) ==
  LET i == FindConfig(configs, config_name)
  IN  IF i = 0 THEN configs
      ELSE [configs EXCEPT ![i].latency = latency, ![i].ping_success = success]

\* _on_ping_result, run in the manager's thread for the oldest queued signal.
on_ping_result ==
  /\ pingQueue # <<>>
  /\ Head(pingQueue).kind = "ping_result"
  /\ LET e == Head(pingQueue)
     IN  /\ configs' = on_ping_result_configs(e.name, e.latency, e.success)
         /\ emitted' = <<SigPing(e.name, e.latency), Sig("configs_changed", None)>>
         /\ lastOp' = Op("_on_ping_result", e.name, None)
  /\ pingQueue' = Tail(pingQueue)
  /\ UNCHANGED <<connected_config, connection_process, pending_connect_config,
                 stored_password, pending_vpn_username, pending_vpn_password,
                 pending_config_for_credentials, envVars, ping_worker, passNames,
                 passResults, harnessVars>>

\* The worker's finished signal reaches ping_complete.emit.
ping_complete ==
  /\ pingQueue # <<>>
  /\ Head(pingQueue).kind = "finished"
  /\ pingQueue' = Tail(pingQueue)
  /\ emitted' = <<Sig("ping_complete", None)>>
  /\ lastOp' = Op("ping_complete", None, None)
  /\ UNCHANGED <<managerVars, envVars, ping_worker, passNames, passResults, harnessVars>>

\* get_best_server_result with the comparison of line 602 reversed.
RECURSIVE best_loop_highest(_, _, _)
best_loop_highest(cfgs, i, best) ==
  IF i > Len(cfgs) THEN best
  ELSE IF /\ cfgs[i].ping_success
          /\ cfgs[i].latency > 0
          /\ (best = 0 \/ cfgs[i].latency > cfgs[best].latency)
  THEN best_loop_highest(cfgs, i + 1, i)
  ELSE best_loop_highest(cfgs, i + 1, best)

get_best_server_highest ==
  LET b == best_loop_highest(configs, 1, 0)
  IN  IF b = 0 THEN "" ELSE configs[b].name

\* The loop of get_best_server from the i-th record on; best is the place of
\* best_config, 0 for None (best_latency is then infinite).
RECURSIVE best_loop(_, _, _)
best_loop(cfgs, i, best) ==
  IF i > Len(cfgs) THEN best
  ELSE IF /\ cfgs[i].ping_success
          /\ cfgs[i].latency > 0
          /\ (best = 0 \/ cfgs[i].latency < cfgs[best].latency)
  THEN best_loop(cfgs, i + 1, i)
  ELSE best_loop(cfgs, i + 1, best)

get_best_server_result ==
  LET b == best_loop(configs, 1, 0)
  IN  IF b = 0 THEN "" ELSE configs[b].name

get_best_server ==
  /\ lastOp' = Op("get_best_server", None, get_best_server_result)
  /\ emitted' = <<>>
  /\ UNCHANGED <<managerVars, envVars, pingVars, harnessVars>>

(***************************************************************************)
(* SPECIFICATIONS.                                                         *)
(***************************************************************************)
HarnessIdle ==
  /\ hContent = <<>>
  /\ hHost = {}
  /\ hOnce = <<>>
  /\ hCalls = 0
  /\ hBefore = <<>>

\* The manager after __init__, on a managed directory that holds any of the
\* files an earlier run left.
Init ==
  /\ \E present \in SUBSET Filenames :
       /\ files = [p \in ManagedPaths |->
                     IF \E f \in present : DestPath(f) = p THEN EarlierContent ELSE Absent]
       /\ \E order \in Orders(present) : configs = load_configs(order)
  /\ authFiles = [p \in AuthPaths |-> Absent]
  /\ connected_config = NoConfig
  /\ connection_process = None
  /\ pending_connect_config = NoConfig
  /\ stored_password = None
  /\ pending_vpn_username = None
  /\ pending_vpn_password = None
  /\ pending_config_for_credentials = None
  /\ vpnRunning = FALSE
  /\ timers = <<>>
  /\ lastOp = Op("init", None, None)
  /\ emitted = <<Sig("configs_changed", None)>>
  /\ PingIdle
  /\ HarnessIdle

\* The slots of the connection and of the store's removals.
ConnNext ==
  \/ \E n \in ConfigNames : connect_vpn(n)
  \/ \E pw \in SudoPasswords, o \in ConnectOutcomes : provide_password(pw, o)
  \/ cancel_password
  \/ \E o \in DisconnectOutcomes : disconnect_vpn(o)
  \/ \E n \in ConfigNames, ok \in BOOLEAN : remove_config(n, ok)
  \/ \E o \in DisconnectOutcomes : request_delete_all(o)
  \/ \E failing \in SUBSET BackingFiles : delete_all_configs(failing)
  \/ ProcessExit
  \/ \E f \in PickableFiles : show_file_dialog(f)
  \/ \E d \in PickableFolders : show_folder_dialog(d)
  \/ TimerFire
  \/ cancel_vpn_credentials

\* The slots of the store.
StoreNext ==
  \/ \E f \in PickableFiles : show_file_dialog(f)
  \/ \E d \in PickableFolders : show_folder_dialog(d)
  \/ TimerFire
  \/ \E u \in Usernames, p \in VpnPasswords :
       \E env \in ImportEnvs(pending_config_for_credentials) :
         provide_vpn_credentials(u, p, env)
  \/ cancel_vpn_credentials
  \/ \E n \in ConfigNames, ok \in BOOLEAN : remove_config(n, ok)
  \/ \E failing \in SUBSET BackingFiles : delete_all_configs(failing)

Next == ConnNext \/ StoreNext

\* The whole manager.
Spec == Init /\ [][Next]_vars

\* The connection on the store as scanned, with no import.
ConnSpec == Init /\ [][ConnNext]_vars

\* The store with no connection.
StoreSpec == Init /\ [][StoreNext]_vars

\* The event loop runs: a single-shot timer that is due fires.  The calls of
\* the user and the exit of the client are under no obligation.
FairSpec == ConnSpec /\ WF_vars(TimerFire)

(***************************************************************************)
(* _inject_dns_leak_prevention on its own: a file, a host, and the calls.  *)
(***************************************************************************)
\* The files are the texts of at most MaxLines lines, each one of InjectLines.
MaxLines == 2
\* The injection is called at most MaxCalls times.
MaxCalls == 2

InjectLines ==
  { <<"client">>,
    <<"remote", "a.example.net", "1194">>,
    <<"up", "/etc/openvpn/update-resolv-conf">>,
    <<"up", "/etc/openvpn/update-systemd-resolved">>,
    <<"#", "Or", "use", "systemd-resolved", "if", "available">>,
    <<"script-security", "2">> }

RECURSIVE JoinAll(_)
JoinAll(lines) ==
  IF Len(lines) = 0 THEN <<>> ELSE lines[1] \o <<NL>> \o JoinAll(Tail(lines))

InjectFiles ==
  UNION {{JoinAll(ls) : ls \in [1..n -> InjectLines]} : n \in 0..MaxLines}

ManagerIdle ==
  /\ configs = <<>>
  /\ files = [p \in ManagedPaths |-> Absent]
  /\ authFiles = [p \in AuthPaths |-> Absent]
  /\ connected_config = NoConfig
  /\ connection_process = None
  /\ pending_connect_config = NoConfig
  /\ stored_password = None
  /\ pending_vpn_username = None
  /\ pending_vpn_password = None
  /\ pending_config_for_credentials = None
  /\ vpnRunning = FALSE
  /\ timers = <<>>
  /\ lastOp = Op("init", None, None)
  /\ emitted = <<>>
  /\ PingIdle

InjectInit ==
  /\ ManagerIdle
  /\ hContent \in InjectFiles
  /\ hHost \in Hosts
  /\ hOnce = <<>>
  /\ hCalls = 0
  /\ hBefore = <<>>

InjectCall ==
  /\ hCalls < MaxCalls
  /\ hContent' = inject_dns_leak_prevention(hContent, hHost, TRUE)
  /\ hOnce' = IF hCalls = 0 THEN hContent' ELSE hOnce
  /\ hCalls' = hCalls + 1
  /\ hBefore' = hContent
  /\ UNCHANGED <<hHost, managerVars, envVars, obsVars, pingVars>>

InjectNext == InjectCall

InjectSpec == InjectInit /\ [][InjectNext]_vars

(***************************************************************************)
(* _inject_auth_credentials on its own: a file, an auth file, the calls.   *)
(***************************************************************************)
AuthLines ==
  { <<"client">>,
    <<"remote", "a.example.net", "1194">>,
    <<"auth-user-pass">>,
    <<"auth-user-pass", "old.txt">>,
    <<"auth-user-pass-verify", "check.sh", "via-env">> }

AuthFiles ==
  UNION {{JoinAll(ls) : ls \in [1..n -> AuthLines]} : n \in 0..MaxLines}

AuthInit ==
  /\ ManagerIdle
  /\ hContent \in AuthFiles
  /\ hHost = {}
  /\ hOnce = <<>>
  /\ hCalls = 0
  /\ hBefore = <<>>

AuthCall(auth_file) ==
  /\ hCalls < MaxCalls
  /\ hContent' = inject_auth_credentials(hContent, auth_file, TRUE)
  /\ hOnce' = IF hCalls = 0 THEN hContent' ELSE hOnce
  /\ hCalls' = hCalls + 1
  /\ hBefore' = hContent
  /\ lastOp' = Op("inject_auth_credentials", auth_file, None)
  /\ UNCHANGED <<hHost, managerVars, envVars, emitted, pingVars>>

AuthNext == \E auth_file \in AuthPaths : AuthCall(auth_file)

AuthSpec == AuthInit /\ [][AuthNext]_vars

(***************************************************************************)
(* The probe next to the slots that edit the store.                        *)
(***************************************************************************)
\* The imports of PingSpec: credentials given, nothing fails.
PingImportEnvs(target) == {env \in ImportEnvs(target) : \A i \in 1..Len(env.outcomes) : env.outcomes[i] = "ok"}

\* The probe on a store that no slot edits.
BestNext ==
  \/ ping_all
  \/ \E latency \in PingLatencies : PingWorkerStep(latency)
  \/ PingWorkerFinish
  \/ on_ping_result
  \/ ping_complete
  \/ get_best_server

BestSpec == Init /\ [][BestNext]_vars

\* The answers of the hosts probed while the store is edited.
PassLatencies == {-1, 15}

\* The probe while the slots edit the store.
PingNext ==
  \/ ping_all
  \/ \E latency \in PassLatencies : PingWorkerStep(latency)
  \/ PingWorkerFinish
  \/ on_ping_result
  \/ ping_complete
  \/ \E n \in ConfigNames : remove_config(n, TRUE)
  \/ delete_all_configs({})
  \/ \E d \in PickableFolders : show_folder_dialog(d)
  \/ TimerFire
  \/ \E env \in PingImportEnvs(pending_config_for_credentials) :
       provide_vpn_credentials("u", "p", env)

PingSpec == Init /\ [][PingNext]_vars

(***************************************************************************)
(* The lookups by name on a store the single-file import has added to.     *)
(***************************************************************************)
\* The file whose import can repeat a name, and the name looked up.
DupFiles == {"/src/dir/a.ovpn"}
DupNames == {"a"}

DupNext ==
  \/ \E f \in DupFiles : show_file_dialog(f)
  \/ TimerFire
  \/ \E env \in PingImportEnvs(pending_config_for_credentials) :
       provide_vpn_credentials("u", "p", env)
  \/ ping_all
  \/ \E latency \in PassLatencies : PingWorkerStep(latency)
  \/ PingWorkerFinish
  \/ on_ping_result
  \/ ping_complete
  \/ \E n \in DupNames : connect_vpn(n)
  \/ \E n \in DupNames : remove_config(n, TRUE)

DupSpec == Init /\ [][DupNext]_vars

(***************************************************************************)
(* CLAIMS.                                                                 *)
(***************************************************************************)
HasSignal(signals, s) == \E i \in 1..Len(signals) : signals[i].sig = s

ErrorCount(signals) == Cardinality({i \in 1..Len(signals) : signals[i].sig = "error_occurred"})

\* C1: while a connection is active, connect_vpn with any name fails: it
\* emits an error and requests no privileged secret, and no provide_password
\* that follows changes the active record.
C1_ConnectWhileActiveFails ==
  /\ [](lastOp.op = "connect_vpn" /\ connected_config # NoConfig
          => HasSignal(emitted, "error_occurred") /\ ~HasSignal(emitted, "password_requested"))
  /\ [][connected_config # NoConfig /\ lastOp'.op = "provide_password"
          => connected_config' = connected_config]_vars

\* C2: disconnect_vpn always ends with no active record, no retained secret
\* and a `disconnected` status notification, whatever the termination
\* command came to.
C2_DisconnectAlwaysClears ==
  lastOp.op = "disconnect_vpn"
    => /\ connected_config = NoConfig
       /\ stored_password = None
       /\ emitted = <<Sig("connection_status_changed", "disconnected")>>

\* C3: while an active connection is held (connected_config_name is not
\* empty) connection_status is `connected`, and it is `disconnected` only
\* when no connection is active.
C3_StatusFollowsStateMachine ==
  /\ connected_config_name # "" => connection_status = "connected"
  /\ connection_status = "disconnected" => connected_config_name = ""

\* C4: disconnect_vpn with no connection active changes nothing of the
\* manager: the store, the pending requests, the active record and the
\* retained secret are as before, and the status is still `disconnected`.
C4_DisconnectIdleIsNoOp ==
  [][connected_config = NoConfig /\ lastOp'.op = "disconnect_vpn"
       => /\ UNCHANGED managerVars
          /\ connection_status' = "disconnected"
          /\ \A i \in 1..Len(emitted') :
               emitted'[i].sig = "connection_status_changed" => emitted'[i].arg = "disconnected"]_vars

\* disconnect_vpn was called with no connection active while a connect
\* request was pending, and the termination command ran.
C4_Witness ==
  /\ lastOp.op = "disconnect_vpn"
  /\ lastOp.arg = ""
  /\ lastOp.outcome = "kill_failed"
  /\ pending_connect_config # NoConfig

ConnectFailures == ConnectOutcomes \ {"connected"}

\* C5: a connect attempt that fails emits exactly one error message, then
\* the `error` status, and leaves the active record and the retained secret
\* as they were.
C5_FailedConnectReportsOnce ==
  [][lastOp'.op = "provide_password" /\ lastOp'.outcome \in ConnectFailures
       => /\ ErrorCount(emitted') = 1
          /\ Len(emitted') = 3
          /\ emitted'[1] = Sig("connection_status_changed", "connecting")
          /\ emitted'[2].sig = "error_occurred"
          /\ emitted'[3] = Sig("connection_status_changed", "error")
          /\ UNCHANGED <<connected_config, stored_password>>]_vars

\* An attempt failed because the client was absent after the settle delay,
\* with no connection active.
C5_Witness ==
  /\ lastOp.op = "provide_password"
  /\ lastOp.outcome = "client_absent"
  /\ connected_config = NoConfig
  /\ stored_password = None
  /\ Len(emitted) = 3

\* C6: if the client process exits while a connection is active, the manager
\* eventually clears the active record.
C6_ExitClearsActiveRecord ==
  (connected_config # NoConfig /\ ~vpnRunning) ~> (connected_config = NoConfig)

\* C7: after delete_all_configs the collection is empty and a change is
\* signalled, whichever backing files could not be deleted; no error is
\* emitted.
C7_DeleteAllEmptiesStore ==
  lastOp.op = "delete_all_configs"
    => /\ configs = <<>>
       /\ emitted = <<Sig("configs_changed", None)>>

\* delete_all_configs ran while a backing file could not be deleted: the
\* file is still there.
C7_Witness ==
  /\ lastOp.op = "delete_all_configs"
  /\ lastOp.failing # {}
  /\ \A p \in lastOp.failing : files[p] # Absent
  /\ configs = <<>>

\* C8: no two records of the collection have the same name.
C8_NamesUnique ==
  \A i, j \in 1..Len(configs) : configs[i].name = configs[j].name => i = j

\* The managed paths the files of a folder are copied to.
FolderDests(folder) == {DestPath(SourceAt(p).filename) : p \in FolderFiles(folder)}

\* The records a call appended.
Appended(before, after) == {after[i] : i \in (Len(before) + 1)..Len(after)}

\* C9: a folder import leaves every destination file that already exists as
\* it is and appends no record for it; such a file raises no error, and the
\* other files of the folder are still imported.
C9_FolderImportNeverOverwrites ==
  [][(/\ lastOp'.op = "provide_vpn_credentials"
      /\ lastOp'.outcome = "accepted"
      /\ lastOp'.arg \in SourceFolders)
       => LET existing == {p \in ManagedPaths : files[p] # Absent}
              fresh == FolderDests(lastOp'.arg) \ existing
              raised == emitted' = <<Sig("error_occurred", "Error adding folder")>>
          IN  /\ \A p \in existing : files'[p] = files[p]
              /\ SubSeq(configs', 1, Len(configs)) = configs
              /\ \A r \in Appended(configs, configs') : r.path \notin existing
              /\ fresh = {} => ~raised /\ configs' = configs
              /\ ~raised => \A p \in fresh :
                              /\ files'[p] # Absent
                              /\ \E r \in Appended(configs, configs') : r.path = p]_vars

\* A folder import found one destination file in place and imported the other.
C9_Witness ==
  /\ lastOp.op = "provide_vpn_credentials"
  /\ lastOp.outcome = "accepted"
  /\ lastOp.arg = "/src/dir"
  /\ emitted = <<Sig("configs_changed", None)>>
  /\ files[DestPath("a.ovpn")] = EarlierContent
  /\ files[DestPath("b.ovpn")] \notin {Absent, EarlierContent}
  /\ Len(configs) = 2

\* C10: for every file and every host, the content after two calls of the
\* leak-prevention injection is the content after one.
C10_InjectionIdempotent ==
  hCalls >= 2 => hContent = hOnce

\* content.split('\n'), without the empty piece after a final line break.
RECURSIVE SplitLines(_)
SplitLines(content) ==
  IF Len(content) = 0 THEN <<>>
  ELSE LET j == SkipLine(content, 1)
       IN  <<SubSeq(content, 1, j - 1)>> \o SplitLines(SubSeq(content, j + 1, Len(content)))

\* The lines that are an auth-credentials directive, with or without argument.
DirectiveLines(lines) ==
  {i \in 1..Len(lines) :
     Len(lines[i]) > 0 /\ Lower(Spell[lines[i][1]]) = Spell[AuthDirective]}

\* C11: when the file holds exactly one auth-credentials directive, the
\* injection leaves exactly one, naming the new auth file, in its place, and
\* every other line as it was.
C11_AuthInjectionReplaces ==
  LET before == SplitLines(hBefore)
      after == SplitLines(hContent)
  IN  (lastOp.op = "inject_auth_credentials" /\ Cardinality(DirectiveLines(before)) = 1)
        => /\ Len(after) = Len(before)
           /\ \A i \in 1..Len(before) :
                IF i \in DirectiveLines(before)
                THEN after[i] = <<AuthDirective, lastOp.arg>>
                ELSE after[i] = before[i]

\* The records marked reachable with a latency above zero.
Reachable == {i \in 1..Len(configs) : configs[i].ping_success /\ configs[i].latency > 0}

\* C12: get_best_server returns the name of a reachable record of lowest
\* positive latency, and the empty string exactly when no record is
\* reachable with a positive latency.
C12_BestServerIsLowestLatency ==
  lastOp.op = "get_best_server"
    => /\ lastOp.outcome = "" <=> Reachable = {}
       /\ Reachable # {}
            => \E i \in Reachable :
                 /\ configs[i].name = lastOp.outcome
                 /\ \A j \in Reachable : configs[i].latency <= configs[j].latency

\* get_best_server ran on two reachable records of which the second is the
\* faster, and named the second.
C12_Witness ==
  /\ lastOp.op = "get_best_server"
  /\ Len(configs) = 2
  /\ Reachable = {1, 2}
  /\ configs[2].latency < configs[1].latency
  /\ lastOp.outcome = configs[2].name

\* C13: a ping_all made while a pass runs starts no worker, resets no
\* record and emits nothing.
C13_PingAllWhileRunningIsNoOp ==
  [][ping_worker.running /\ lastOp'.op = "ping_all"
       => /\ UNCHANGED <<managerVars, ping_worker, pingQueue>>
          /\ emitted' = <<>>]_vars

\* ping_all was called while the worker was past the first record and that
\* record's result had been applied.
C13_Witness ==
  /\ lastOp.op = "ping_all"
  /\ lastOp.outcome = "running"
  /\ ping_worker.running
  /\ ping_worker.pos = 1
  /\ Len(configs) = 2
  /\ configs[1].ping_success

\* C14: when a pass ends, it has emitted one result for each record of the
\* store it was started on, in order, whatever the slots did to the store
\* meanwhile.
C14_PassCoversStartedStore ==
  lastOp.op = "PingWorker.finished" => passResults = passNames

\* C15 as stated: after any call of provide_vpn_credentials or
\* cancel_vpn_credentials no import request is pending.
C15_AnyCallConsumesRequest ==
  lastOp.op \in {"provide_vpn_credentials", "cancel_vpn_credentials"}
    => pending_config_for_credentials = None

\* C15, amended: after cancel_vpn_credentials, and after a
\* provide_vpn_credentials with a username and a password, no import request
\* is pending; a provide_vpn_credentials with none pending imports nothing.
C15_AcceptedCallConsumesRequest ==
  /\ []((\/ lastOp.op = "cancel_vpn_credentials"
         \/ lastOp.op = "provide_vpn_credentials" /\ lastOp.outcome = "accepted")
          => pending_config_for_credentials = None)
  /\ [][pending_config_for_credentials = None /\ lastOp'.op = "provide_vpn_credentials"
          => UNCHANGED <<configs, files, authFiles>>]_vars

\* A pending request for a file was consumed by an accepted submission that
\* imported it.
C15_Witness ==
  /\ lastOp.op = "provide_vpn_credentials"
  /\ lastOp.outcome = "accepted"
  /\ lastOp.arg = "/src/dir/a.ovpn"
  /\ emitted = <<Sig("configs_changed", None)>>
  /\ pending_config_for_credentials = None

\* C16: in a connect of a known record the `connecting` status is emitted
\* before the privileged secret is requested.
C16_ConnectingBeforeSecretRequest ==
  lastOp.op = "connect_vpn"
    => \A j \in 1..Len(emitted) :
         emitted[j].sig = "password_requested"
           => \E i \in 1..(j - 1) : emitted[i] = Sig("connection_status_changed", "connecting")

HasNamed(cfgs, n) == \E i \in 1..Len(cfgs) : cfgs[i].name = n

FirstNamed(cfgs, n) ==
  CHOOSE i \in 1..Len(cfgs) : cfgs[i].name = n /\ \A j \in 1..(i - 1) : cfgs[j].name # n

LastNamed(cfgs, n) ==
  CHOOSE i \in 1..Len(cfgs) : cfgs[i].name = n /\ \A j \in (i + 1)..Len(cfgs) : cfgs[j].name # n

\* What a lookup by name does when it acts on the record at place At(n):
\* connect_vpn takes that record, remove_config removes it and no other,
\* a probe result is written to it and to no other.
LookupsActOn(At(_)) ==
  LET n == lastOp'.arg
  IN  HasNamed(configs, n)
        => /\ lastOp'.op = "connect_vpn"
                => pending_connect_config' = configs[At(n)] /\ configs' = configs
           /\ lastOp'.op = "remove_config"
                => configs' = SubSeq(configs, 1, At(n) - 1) \o SubSeq(configs, At(n) + 1, Len(configs))
           /\ lastOp'.op = "_on_ping_result"
                => configs' = [configs EXCEPT ![At(n)].latency = Head(pingQueue).latency,
                                              ![At(n)].ping_success = Head(pingQueue).success]

AtFirst(n) == FirstNamed(configs, n)
AtLast(n) == LastNamed(configs, n)

\* C17 as stated: every lookup by name acts on the last record of that name.
C17_LookupsActOnLast == [][LookupsActOn(AtLast)]_vars

\* C17, amended: records of the same name both stay in the list, and every
\* lookup by name acts on the first record of that name.
C17_LookupsActOnFirst == [][LookupsActOn(AtFirst)]_vars

\* A probe result was applied to a store of two records of one name: the
\* first carries it, the second does not.
C17_Witness ==
  /\ lastOp.op = "_on_ping_result"
  /\ Len(configs) = 2
  /\ configs[1].name = configs[2].name
  /\ configs[1].ping_success
  /\ ~configs[2].ping_success

\* The auth file of the record at a managed path.
AuthPathOf(path) == AuthPath(CHOOSE f \in Filenames : DestPath(f) = path)

\* The content has the directive naming that auth file, on a line of its own.
NamesAuthFile(content, auth_file) ==
  \E i \in 1..Len(SplitLines(content)) : SplitLines(content)[i] = <<AuthDirective, auth_file>>

\* C18: an import in which the injection of the credentials failed emits
\* exactly one error; no import emits more than one, and none ends without
\* an error having appended a record whose file lacks the directive.
C18_InjectionFailureIsReported ==
  [][(lastOp'.op = "provide_vpn_credentials" /\ lastOp'.outcome = "accepted")
       => LET lacking == {r \in Appended(configs, configs') :
                            ~NamesAuthFile(files'[r.path], AuthPathOf(r.path))}
          IN  /\ ErrorCount(emitted') <= 1
              /\ lacking # {} => ErrorCount(emitted') = 1]_vars

\* C19: a folder import that appended at least one record emits no error
\* and signals the change.
C19_FolderErrorOnlyIfNoneAdded ==
  [][(/\ lastOp'.op = "provide_vpn_credentials"
      /\ lastOp'.outcome = "accepted"
      /\ lastOp'.arg \in SourceFolders
      /\ Len(configs') > Len(configs))
       => emitted' = <<Sig("configs_changed", None)>>]_vars

\* C20: on a host with neither helper script, for a file that refers to
\* neither, every line the injection appends is empty or a comment.
C20_FallbackAppendsOnlyComments ==
  (/\ hCalls >= 1
   /\ dns_script(hHost) = NoScript
   /\ ~InContent(WordsWithResolvConf, hBefore)
   /\ ~InContent(WordsWithSystemdResolved, hBefore))
    => /\ SubSeq(hContent, 1, Len(hBefore)) = hBefore
       /\ LET added == SplitLines(SubSeq(hContent, Len(hBefore) + 1, Len(hContent)))
          IN  \A i \in 1..Len(added) : added[i] = <<>> \/ added[i][1] = "#"

\* C21: whenever connected_config_name is not empty, a record of that name
\* is in the collection.
C21_ActiveRecordIsInStore ==
  connected_config_name # ""
    => \E i \in 1..Len(configs) : configs[i].name = connected_config_name

\* C22: after provide_vpn_credentials or cancel_vpn_credentials the pending
\* username and the pending password are both empty.
C22_CredentialsNotRetained ==
  lastOp.op \in {"provide_vpn_credentials", "cancel_vpn_credentials"}
    => pending_vpn_username = None /\ pending_vpn_password = None

\* The records of the collection with the given name.
Known(n) == {configs[i] : i \in {j \in 1..Len(configs) : configs[j].name = n}}

\* C23: a connect request is outstanding from a connect_vpn that was
\* accepted for a known record until the next provide_password or
\* cancel_password, and is for the record of the latest such connect_vpn.
\* provide_password with a request outstanding announces `connecting` and,
\* when the client starts, makes the requested record the active one; with
\* none outstanding it changes no state and emits nothing.
C23_SecretStartsOnlyOutstandingRequest ==
  [][/\ pending_connect_config' # pending_connect_config
          => lastOp'.op \in {"connect_vpn", "provide_password", "cancel_password"}
     /\ lastOp'.op = "connect_vpn"
          => IF HasSignal(emitted', "password_requested")
             THEN pending_connect_config' \in Known(lastOp'.arg)
             ELSE pending_connect_config' = pending_connect_config
     /\ lastOp'.op \in {"provide_password", "cancel_password"}
          => pending_connect_config' = NoConfig
     /\ lastOp'.op = "provide_password"
          => IF pending_connect_config = NoConfig
             THEN UNCHANGED <<managerVars, envVars>> /\ emitted' = <<>>
             ELSE /\ emitted'[1] = Sig("connection_status_changed", "connecting")
                  /\ connected_config' \in {connected_config, pending_connect_config}
                  /\ lastOp'.outcome = "connected" => connected_config' = pending_connect_config]_vars

\* A request for b was outstanding and the secret started the client for b.
C23_Witness ==
  /\ lastOp.op = "provide_password"
  /\ lastOp.outcome = "connected"
  /\ connected_config_name = "b"
  /\ pending_connect_config = NoConfig
  /\ stored_password = "pw"
====
